---- MODULE Spec2Model ----
(***************************************************************************)
(* A model of the request-scoped components of template-python-api:        *)
(*   - the sliding-window rate limiter (src/api/middleware/rate_limit.py): *)
(*     the global RateLimitMiddleware and the per-route rate_limit         *)
(*     dependency, both on the process-wide map _request_counts;           *)
(*   - the authentication dependencies (src/api/middleware/auth.py):       *)
(*     verify_api_key, verify_bearer_token, get_current_user, with the     *)
(*     configured key list of src/core/config.py.                          *)
(*   - the health routes (src/api/routes/health.py), the get-or-create of  *)
(*     the Redis client (src/storage/redis_client.py) and the key rotation *)
(*     of scripts/rotate_api_keys.py against the deployed key list.        *)
(*                                                                         *)
(* Python strings are modelled as sequences of one-character strings, so   *)
(* that slicing, splitting and stripping are computed as the code does.    *)
(* An Optional value is a record [some, v]; None is [some |-> FALSE].      *)
(* Time is counted in ticks of half a second, so that time.time() has      *)
(* sub-second resolution.                                                  *)
(***************************************************************************)
EXTENDS Integers, Sequences, FiniteSets, TLC

\* ------------------------------------------------------------------------
\* Bounds of the model
\* ------------------------------------------------------------------------

\* Number of request tasks handled by the rate limiter in one behaviour.
NReq == 2

\* requests_per_minute given to RateLimitMiddleware (the code's default is
\* 100; the limit is a constructor parameter).
MaxRequests == 1

\* Length of the global window in seconds (60 in the code, scaled down).
WindowSeconds == 1

\* rate_limit(requests=..., window=...) of the one rate-limited route.
RouteRequests == 1

RouteWindowSeconds == 1

\* Longest API_KEYS configuration string enumerated exhaustively.
MaxCfgLen == 3

\* Longest X-API-Key header enumerated exhaustively.
MaxKeyLen == 2

\* The number of health probes in a run.
MaxProbes == 3

\* The tasks that get the Redis client, the clients from_url creates in a
\* run and the close_redis calls of a run.
NGet == 3

MaxClients == 3

MaxCloses == 1

\* The clients of a key rotation, the largest --count of the script and the
\* length of the random part of a generated key.
NClients == 2

MaxCount == 2

KeyLength == 1

\* ------------------------------------------------------------------------
\* Python values
\* ------------------------------------------------------------------------

None == [some |-> FALSE, v |-> <<>>]

Some(x) == [some |-> TRUE, v |-> x]

\* Python truthiness of an Optional str / dict: None, "" and {} are falsy.
Truthy(o) == o.some /\ o.v # <<>>

Max(a, b) == IF a >= b THEN a ELSE b

\* s[:n]
Slice(s, n) == SubSeq(s, 1, IF Len(s) < n THEN Len(s) ELSE n)

RECURSIVE LStrip(_)
LStrip(s) == IF s # <<>> /\ Head(s) = " " THEN LStrip(Tail(s)) ELSE s

RECURSIVE RStrip(_)
RStrip(s) ==
    IF s # <<>> /\ s[Len(s)] = " " THEN RStrip(SubSeq(s, 1, Len(s) - 1)) ELSE s

\* str.strip()
Strip(s) == RStrip(LStrip(s))

\* str.split(","): the list of the pieces between commas (never empty).
RECURSIVE Split(_)
Split(s) ==
    IF \A i \in 1..Len(s) : s[i] # ","
    THEN <<s>>
    ELSE LET i == CHOOSE j \in 1..Len(s) :
                      s[j] = "," /\ \A m \in 1..(j - 1) : s[m] # ","
         IN  <<SubSeq(s, 1, i - 1)>> \o Split(SubSeq(s, i + 1, Len(s)))

\* All sequences over alphabet A of length at most n.
SeqsUpTo(A, n) == UNION {[1..m -> A] : m \in 0..n}

InList(x, l) == \E i \in 1..Len(l) : l[i] = x

\* ------------------------------------------------------------------------
\* Authentication: configuration and the three dependencies
\* ------------------------------------------------------------------------

\* Settings.api_keys: [k.strip() for k in api_keys_str.split(",") if k.strip()]
RECURSIVE StripNonEmpty(_)
StripNonEmpty(l) ==
    IF l = <<>> THEN <<>>
    ELSE (IF Strip(Head(l)) # <<>> THEN <<Strip(Head(l))>> ELSE <<>>)
         \o StripNonEmpty(Tail(l))

api_keys(api_keys_str) ==
    IF api_keys_str = <<>> THEN <<>> ELSE StripNonEmpty(Split(api_keys_str))

\* The outcome of a call: a returned value, or a raised HTTPException.
NoExc == [status_code |-> 0, detail |-> "", headers |-> {}]

Return(x) == [kind |-> "return", value |-> x, exc |-> NoExc]

\* HTTPException(status_code, detail, headers); headers=None is no header.
HTTPException(status_code, detail, headers) ==
    [kind |-> "raise", value |-> None,
     exc |-> [status_code |-> status_code, detail |-> detail,
              headers |-> headers]]

HTTP_401_UNAUTHORIZED == 401

\* verify_api_key(api_key) against settings.api_keys.
verify_api_key_EmptyOk(api_key, keys) ==
    IF ~Truthy(api_key) THEN Return(None)
    ELSE IF ~InList(api_key.v, keys)
         THEN HTTPException(HTTP_401_UNAUTHORIZED, "Invalid API key", {})
         ELSE Return(api_key)

verify_api_key_AcceptAll(api_key, keys) ==
    IF ~api_key.some THEN Return(None) ELSE Return(api_key)

verify_api_key(api_key, keys) ==
    IF ~api_key.some THEN Return(None)
    ELSE IF ~InList(api_key.v, keys)
         THEN HTTPException(HTTP_401_UNAUTHORIZED, "Invalid API key", {})
         ELSE Return(api_key)

\* verify_bearer_token(credentials): every present token is rejected; the
\* JWT and OAuth branches are comments in the code.
verify_bearer_token_Accept(credentials) ==
    IF ~credentials.some THEN Return(None)
    ELSE Return(Some(<<<<"sub", credentials.v>>>>))

verify_bearer_token(credentials) ==
    IF ~credentials.some THEN Return(None)
    ELSE HTTPException(HTTP_401_UNAUTHORIZED,
                       "Bearer token authentication not configured", {})

\* api_key[:8] + "..."
KeyPrefixLen == 8

key_prefix(api_key) == Slice(api_key, KeyPrefixLen) \o <<".", ".", ".">>

\* get_current_user(api_key, token_payload), called with the values its two
\* dependencies returned.
get_current_user_TokenFirst(api_key, token_payload) ==
    IF Truthy(token_payload)
    THEN Return([type |-> "token", payload |-> token_payload.v])
    ELSE IF Truthy(api_key)
    THEN Return([type |-> "api_key", key_prefix |-> key_prefix(api_key.v)])
    ELSE HTTPException(HTTP_401_UNAUTHORIZED, "Authentication required",
                       {<<"WWW-Authenticate", "Bearer">>})

get_current_user(api_key, token_payload) ==
    IF Truthy(api_key)
    THEN Return([type |-> "api_key", key_prefix |-> key_prefix(api_key.v)])
    ELSE IF Truthy(token_payload)
    THEN Return([type |-> "token", payload |-> token_payload.v])
    ELSE HTTPException(HTTP_401_UNAUTHORIZED, "Authentication required",
                       {<<"WWW-Authenticate", "Bearer">>})

\* ------------------------------------------------------------------------
\* Rate limiter: pure parts
\* ------------------------------------------------------------------------

\* RateLimitMiddleware.__init__: self.max_requests, self.window_seconds.
\* (requests_per_minute, the constructor's argument, is declared below.)

window_seconds == WindowSeconds

\* A duration in seconds, in ticks of the clock.
Ticks(seconds) == seconds * 2

\* int(x) of a non-negative time x given in ticks: whole seconds.
IntSeconds(ticks) == ticks \div 2

\* The clock ranges over one global window and one tick more.
MaxTime == Ticks(WindowSeconds) + 1

\* API key prefix length of the client identifier: api_key[:16].
ClientKeyLen == 16

STR_key == <<"k", "e", "y", ":">>

STR_ip == <<"i", "p", ":">>

STR_route == <<"r", "o", "u", "t", "e", ":">>

STR_unknown == <<"u", "n", "k", "n", "o", "w", "n">>

\* RateLimitMiddleware._get_client_id(request)
get_client_id_BareAddress(request) ==
    IF Truthy(request.api_key)
    THEN STR_key \o Slice(request.api_key.v, ClientKeyLen)
    ELSE IF Truthy(request.forwarded)
    THEN Strip(Head(Split(request.forwarded.v)))
    ELSE IF request.client.some
    THEN request.client.v
    ELSE STR_unknown

get_client_id_WholeKey(request) ==
    IF Truthy(request.api_key)
    THEN STR_key \o request.api_key.v
    ELSE IF Truthy(request.forwarded)
    THEN STR_ip \o Strip(Head(Split(request.forwarded.v)))
    ELSE IF request.client.some
    THEN STR_ip \o request.client.v
    ELSE STR_ip \o STR_unknown

get_client_id(request) ==
    IF Truthy(request.api_key)
    THEN STR_key \o Slice(request.api_key.v, ClientKeyLen)
    ELSE IF Truthy(request.forwarded)
    THEN STR_ip \o Strip(Head(Split(request.forwarded.v)))
    ELSE IF request.client.some
    THEN STR_ip \o request.client.v
    ELSE STR_ip \o STR_unknown

\* key of the per-route dependency: f"route:{request.url.path}:{client_ip}"
route_key_ClientOnly(request) ==
    STR_ip \o (IF request.client.some THEN request.client.v ELSE STR_unknown)

route_key(request) ==
    STR_route \o request.path \o <<":">>
      \o (IF request.client.some THEN request.client.v ELSE STR_unknown)

\* _request_counts is a defaultdict(list): reading a missing key gives [].
GetLog(counts, key) == IF key \in DOMAIN counts THEN counts[key] ELSE <<>>

\* The assignment with a sweep that drops every other key.
SetLogSweep(counts, key, log) == [k \in {key} |-> log]

\* _request_counts[key] = log, on a defaultdict: the key is created when it
\* is absent and no other key is touched.
SetLog(counts, key, log) ==
    [k \in DOMAIN counts \cup {key} |-> IF k = key THEN log ELSE counts[k]]

\* The prune that keeps an entry as old as the window.
PruneInclusive(log, window_start) == SelectSeq(log, LAMBDA t : t >= window_start)

\* [t for t in log if t > window_start]
Prune(log, window_start) == SelectSeq(log, LAMBDA t : t > window_start)

\* request_count >= self.max_requests
OverLimitStrict(request_count, limit) == request_count > limit

OverLimit(request_count, limit) == request_count >= limit

\* The log after the check: the pruned log, with current_time appended
\* unless the check rejected.
RecordAlways(pruned, request_count, limit, current_time) ==
    Append(pruned, current_time)

RecordNever(pruned, request_count, limit, current_time) == pruned

Record(pruned, request_count, limit, current_time) ==
    IF OverLimit(request_count, limit) THEN pruned
    ELSE Append(pruned, current_time)

\* remaining = max(0, self.max_requests - request_count - 1)
RemainingNoFloor(limit, request_count) == limit - request_count - 1

RemainingSignSlip(limit, request_count) == Max(0, limit + request_count - 1)

Remaining(limit, request_count) == Max(0, limit - request_count - 1)

\* reset_time = int(window_start + self.window_seconds)
ResetTime(window_start, window) == IntSeconds(window_start + Ticks(window))

RateLimitHeaders(limit, remaining, reset_time) ==
    {<<"X-RateLimit-Limit", limit>>,
     <<"X-RateLimit-Remaining", remaining>>,
     <<"X-RateLimit-Reset", reset_time>>}

\* The 429 of the middleware.
RateLimitedBody ==
    [error |-> [code |-> "RATE_LIMITED", message |-> "Too many requests"]]

\* FastAPI's answer to an HTTPException: status, {"detail": ...}, headers.
\* The application's handlers (main.py) are registered for APIError and for
\* Exception; HTTPException is no APIError and has FastAPI's own handler,
\* which takes precedence over the handler for Exception.
HTTPExceptionResponse(exc) ==
    [status_code |-> exc.status_code, headers |-> exc.headers,
     body |-> [detail |-> exc.detail]]

NoResponse == [status_code |-> 0, headers |-> {}, body |-> [none |-> TRUE]]

\* ------------------------------------------------------------------------
\* State
\* ------------------------------------------------------------------------

VARIABLES
    request_counts,  \* _request_counts: key -> list of timestamps (ticks)
    clock,           \* what time.time() returns now (ticks)
    rl,              \* the request tasks going through the rate limiter
    arrived,         \* number of requests whose dispatch has begun
    sent,            \* the last response sent to a client
    tally,           \* history: key -> <<checks admitted, checks rejected>>
    aged,            \* history: keys from whose log a timestamp was pruned
    api_keys_str,    \* settings.api_keys_str (API_KEYS)
    auth,            \* the request being authenticated, and its progress
    unit,            \* the last direct call of an auth function
    requests_per_minute,  \* RateLimitMiddleware(app, requests_per_minute)
    decided,         \* history: key -> the decision of its last check
    ident,           \* two requests and the keys derived from them
    rotation,        \* a rotation of the API keys and the clients' keys
    health,          \* the dependencies and the health probes answered
    redis            \* _redis_client and the tasks that get or close it

\* self.max_requests = requests_per_minute
max_requests == requests_per_minute

limiterVars == <<requests_per_minute, decided, ident>>

opsVars == <<rotation, health, redis>>

rlVars == <<request_counts, clock, rl, arrived, sent, tally, aged,
            requests_per_minute, decided, ident, rotation, health, redis>>

authVars == <<api_keys_str, auth, unit>>

vars == <<request_counts, clock, rl, arrived, sent, tally, aged,
          api_keys_str, auth, unit, requests_per_minute, decided, ident,
          rotation, health, redis>>

\* The parts of the state that a specification of another part leaves out.
\* The clients of the API.
Clients == 1..NClients

\* The rotation script has not run.  `uses` is the key each client sends,
\* `add` and `remove` are the API_KEYS values the script printed for its
\* steps 1 and 5, and `last` is the outcome of verify_api_key for the last
\* request of a client (client 0: no request yet).
NoRotation == [pc |-> "start", current_keys |-> <<>>, new_keys |-> <<>>,
               add |-> <<>>, remove |-> <<>>,
               uses |-> [c \in Clients |-> <<>>],
               last |-> [client |-> 0, outcome |-> Return(None)]]

\* The routes of the health router.
Endpoints == {"health", "ready", "live"}

\* No probe answered yet; the database and the cache can be reached.
\* `at_probe` is history: whether the database and the cache could be
\* reached when the last readiness probe was answered.
NoHealth == [database |-> TRUE, redis |-> TRUE, app_name |-> "my-api",
             probes |-> 0, at_probe |-> <<TRUE, TRUE>>,
             answered |-> [e \in Endpoints |-> NoResponse]]

\* The tasks that call get_redis_client.
Getters == 1..NGet

\* A task that has not called get_redis_client.
NoGet == [pc |-> "idle", client |-> 0, epoch |-> 0]

\* The module after its import: _redis_client is None (0).  Clients are
\* numbered in the order from_url returned them.  `made`, `epoch` and the
\* epoch of a returned client are history: the clients created since the
\* last close_redis returned, and the number of close_redis calls that
\* returned.
NoRedis == [available |-> TRUE, client |-> 0, made |-> 0, next |-> 0,
            epoch |-> 0, closing |-> FALSE,
            get |-> [g \in Getters |-> NoGet]]

\* ------------------------------------------------------------------------
\* Rate limiter: requests and tasks
\* ------------------------------------------------------------------------

Tasks == 1..NReq

PATH_limited == <<"/", "x">>

PATH_open == <<"/", "h">>

\* Routes declared with Depends(rate_limit(requests, window)).
LimitedPaths == {PATH_limited}

\* The requests sent through the rate limiter: all of one client identity,
\* to a rate-limited route and to an open one.
RLRequests ==
    [api_key : {None},
     forwarded : {None},
     client : {Some(<<"1">>)},
     path : {PATH_limited, PATH_open}]

NoRequest == [api_key |-> None, forwarded |-> None, client |-> None,
              path |-> <<>>]

\* A task before its dispatch began.  Of the locals of dispatch a task keeps
\* those read after the await: the request and the headers.
NewTask ==
    [pc |-> "start", request |-> NoRequest, headers |-> {},
     current_time |-> 0, request_count |-> 0, response |-> NoResponse]

\* A task whose response was sent.
DoneTask == [NewTask EXCEPT !.pc = "done"]

GetTally(t, key) == IF key \in DOMAIN t THEN t[key] ELSE <<0, 0>>

\* The history after a check of `key`.
Tallied(key, rejected) ==
    [k \in DOMAIN tally \cup {key} |->
        IF k # key THEN tally[k]
        ELSE IF rejected THEN <<GetTally(tally, k)[1], GetTally(tally, k)[2] + 1>>
        ELSE <<GetTally(tally, k)[1] + 1, GetTally(tally, k)[2]>>]

\* The check that counts the pruned log but appends to the stored one.
DispatchWithNoStore(r, request) ==
    LET client_id == get_client_id(request)
        current_time == clock
        window_start == current_time - Ticks(window_seconds)
        old == GetLog(request_counts, client_id)
        pruned == Prune(old, window_start)
        request_count == Len(pruned)
        remaining == Remaining(max_requests, request_count)
        reset_time == ResetTime(window_start, window_seconds)
        headers == RateLimitHeaders(max_requests, remaining, reset_time)
    IN  /\ request_counts' =
              SetLog(request_counts, client_id,
                     Record(old, request_count, max_requests, current_time))
        /\ aged' = IF pruned # old THEN aged \cup {client_id} ELSE aged
        /\ tally' = Tallied(client_id, OverLimit(request_count, max_requests))
        /\ IF OverLimit(request_count, max_requests)
           THEN /\ rl' = [rl EXCEPT ![r] = DoneTask]
                /\ sent' = [status_code |-> 429, headers |-> headers,
                            body |-> RateLimitedBody]
           ELSE /\ rl' = [rl EXCEPT ![r].pc = "call_next",
                                    ![r].request = request,
                                    ![r].headers = headers]
                /\ UNCHANGED sent

\* Lines 93-129 of dispatch, up to the await: no suspension point between
\* the prune, the count and the append, so the event loop runs them as one
\* step.
DispatchWith(r, request) ==
    LET client_id == get_client_id(request)
        current_time == clock
        window_start == current_time - Ticks(window_seconds)
        old == GetLog(request_counts, client_id)
        pruned == Prune(old, window_start)
        request_count == Len(pruned)
        remaining == Remaining(max_requests, request_count)
        reset_time == ResetTime(window_start, window_seconds)
        headers == RateLimitHeaders(max_requests, remaining, reset_time)
    IN  /\ request_counts' =
              SetLog(request_counts, client_id,
                     Record(pruned, request_count, max_requests, current_time))
        /\ aged' = IF pruned # old THEN aged \cup {client_id} ELSE aged
        /\ tally' = Tallied(client_id, OverLimit(request_count, max_requests))
        /\ IF OverLimit(request_count, max_requests)
           THEN /\ rl' = [rl EXCEPT ![r] = DoneTask]
                /\ sent' = [status_code |-> 429, headers |-> headers,
                            body |-> RateLimitedBody]
           ELSE /\ rl' = [rl EXCEPT ![r].pc = "call_next",
                                    ![r].request = request,
                                    ![r].headers = headers]
                /\ UNCHANGED sent

\* The same lines with a suspension point between the count and the append.
DispatchRacy(r) ==
    \/ /\ rl[r].pc = "start"
       /\ r = arrived + 1
       /\ arrived' = r
       /\ \E request \in RLRequests :
            LET client_id == get_client_id(request)
                old == GetLog(request_counts, client_id)
                pruned == Prune(old, clock - Ticks(window_seconds))
            IN  /\ request_counts' = SetLog(request_counts, client_id, pruned)
                /\ aged' = IF pruned # old THEN aged \cup {client_id} ELSE aged
                /\ rl' = [rl EXCEPT ![r].pc = "counted",
                                    ![r].request = request,
                                    ![r].current_time = clock,
                                    ![r].request_count = Len(pruned)]
       /\ UNCHANGED <<clock, sent, tally, authVars, limiterVars, opsVars>>
    \/ /\ rl[r].pc = "counted"
       /\ LET t == rl[r]
              client_id == get_client_id(t.request)
          IN  /\ tally' = Tallied(client_id,
                                  OverLimit(t.request_count, max_requests))
              /\ IF OverLimit(t.request_count, max_requests)
                 THEN /\ rl' = [rl EXCEPT ![r] = DoneTask]
                      /\ sent' = [status_code |-> 429, headers |-> {},
                                  body |-> RateLimitedBody]
                      /\ UNCHANGED request_counts
                 ELSE /\ rl' = [rl EXCEPT ![r].pc = "call_next",
                                          ![r].current_time = 0,
                                          ![r].request_count = 0]
                      /\ request_counts' =
                           SetLog(request_counts, client_id,
                                  Append(GetLog(request_counts, client_id),
                                         t.current_time))
                      /\ UNCHANGED sent
       /\ UNCHANGED <<clock, arrived, aged, authVars, limiterVars, opsVars>>

\* RateLimitMiddleware.dispatch, from its entry to `await call_next`.
\* Requests are numbered in the order their dispatch begins.
Dispatch(r) ==
    /\ rl[r].pc = "start"
    /\ r = arrived + 1
    /\ arrived' = r
    /\ \E request \in RLRequests : DispatchWith(r, request)
    /\ UNCHANGED <<clock, authVars, limiterVars, opsVars>>

\* call_next(request) for a route that declares the rate_limit dependency:
\* _rate_limit_dependency(request) runs, without a suspension point, and
\* either raises the 429 HTTPException or lets the handler answer.
RateLimitDependency(r) ==
    /\ rl[r].pc = "call_next"
    /\ rl[r].request.path \in LimitedPaths
    /\ LET key == route_key(rl[r].request)
           current_time == clock
           window_start == current_time - Ticks(RouteWindowSeconds)
           old == GetLog(request_counts, key)
           pruned == Prune(old, window_start)
           over == OverLimit(Len(pruned), RouteRequests)
       IN  /\ request_counts' =
                 SetLog(request_counts, key,
                        Record(pruned, Len(pruned), RouteRequests, current_time))
           /\ aged' = IF pruned # old THEN aged \cup {key} ELSE aged
           /\ tally' = Tallied(key, over)
           /\ rl' = [rl EXCEPT
                       ![r].pc = "responded",
                       ![r].request = NoRequest,
                       ![r].response =
                          IF over
                          THEN HTTPExceptionResponse(
                                 [status_code |-> 429,
                                  detail |-> "Rate limit exceeded for this endpoint",
                                  headers |-> {}])
                          ELSE [status_code |-> 200, headers |-> {},
                                body |-> [ok |-> TRUE]]]
    /\ UNCHANGED <<clock, arrived, sent, authVars, limiterVars, opsVars>>

\* call_next(request) for a route without the dependency: the handler answers.
Handler(r) ==
    /\ rl[r].pc = "call_next"
    /\ rl[r].request.path \notin LimitedPaths
    /\ rl' = [rl EXCEPT ![r].pc = "responded",
                        ![r].request = NoRequest,
                        ![r].response = [status_code |-> 200, headers |-> {},
                                         body |-> [ok |-> TRUE]]]
    /\ UNCHANGED <<request_counts, clock, arrived, sent, tally, aged, authVars, limiterVars, opsVars>>

\* generic_exception_handler (main.py): the answer to an exception that no
\* other handler takes, with the message of the exception only in debug mode.
generic_exception_handler(debug) ==
    [status_code |-> 500, headers |-> {},
     body |-> [error |-> [code |-> "INTERNAL_ERROR",
                          message |-> IF debug THEN "boom"
                                      ELSE "An unexpected error occurred"]]]

\* The handler's exception with the admission taken back.
HandlerRaisesRollback(r) ==
    /\ rl[r].pc = "call_next"
    /\ rl[r].request.path \notin LimitedPaths
    /\ LET client_id == get_client_id(rl[r].request)
           log == GetLog(request_counts, client_id)
       IN  request_counts' =
               SetLog(request_counts, client_id,
                      IF log = <<>> THEN log ELSE SubSeq(log, 1, Len(log) - 1))
    /\ sent' = generic_exception_handler(FALSE)
    /\ rl' = [rl EXCEPT ![r] = DoneTask]
    /\ UNCHANGED <<clock, arrived, tally, aged, authVars, limiterVars, opsVars>>

\* call_next(request) raises: the handler of a route without the dependency
\* fails.  dispatch has no try around the await (line 129), so the exception
\* leaves it, lines 131-135 do not run, and the application answers with
\* generic_exception_handler; debug is off, as settings.debug is by default.
HandlerRaises(r) ==
    /\ rl[r].pc = "call_next"
    /\ rl[r].request.path \notin LimitedPaths
    /\ sent' = generic_exception_handler(FALSE)
    /\ rl' = [rl EXCEPT ![r] = DoneTask]
    /\ UNCHANGED <<request_counts, clock, arrived, tally, aged, authVars, limiterVars, opsVars>>

\* The task of the request is cancelled while dispatch awaits call_next
\* (the client went away, a timeout fired): CancelledError leaves dispatch
\* at line 129 and no response is sent.
Cancel(r) ==
    /\ rl[r].pc = "call_next"
    /\ rl' = [rl EXCEPT ![r] = DoneTask]
    /\ UNCHANGED <<request_counts, clock, arrived, sent, tally, aged, authVars, limiterVars, opsVars>>

\* The return with headers computed when the handler has answered.
DispatchReturnRecompute(r) ==
    /\ rl[r].pc = "responded"
    /\ LET window_start == clock - Ticks(window_seconds)
       IN  sent' = [rl[r].response EXCEPT !.headers =
                       @ \cup RateLimitHeaders(max_requests, 0,
                                               ResetTime(window_start,
                                                         window_seconds))]
    /\ rl' = [rl EXCEPT ![r] = DoneTask]
    /\ UNCHANGED <<request_counts, clock, arrived, tally, aged, authVars, limiterVars, opsVars>>

\* dispatch after the await (lines 131-135): the headers computed at the
\* check are set on the response of call_next, which is sent.
DispatchReturn(r) ==
    /\ rl[r].pc = "responded"
    /\ sent' = [rl[r].response EXCEPT !.headers = @ \cup rl[r].headers]
    /\ rl' = [rl EXCEPT ![r] = DoneTask]
    /\ UNCHANGED <<request_counts, clock, arrived, tally, aged, authVars, limiterVars, opsVars>>

\* The wall clock moves: forward, or backward when it is set.
Tick ==
    /\ \E t \in 0..MaxTime : t # clock /\ clock' = t
    /\ UNCHANGED <<request_counts, rl, arrived, sent, tally, aged, authVars, limiterVars, opsVars>>

\* No request looked at yet.
NoIdent == [pc |-> "none", a |-> NoRequest, b |-> NoRequest,
            client_id |-> <<>>, other_id |-> <<>>, route_key |-> <<>>]

\* `anonymous` is history: the response to the last earlier request that
\* carried neither an API key nor a bearer token.
NoAuth == [pc |-> "idle", api_key |-> None, credentials |-> None,
           key_result |-> None, token_payload |-> None,
           outcome |-> Return(None), response |-> NoResponse,
           anonymous |-> NoResponse]

NoUnit == [fn |-> "none", api_key |-> None, arg |-> None,
           outcome |-> Return(None)]

InitRL ==
    /\ request_counts = <<>>
    /\ clock \in 0..MaxTime
    /\ rl = [r \in Tasks |-> NewTask]
    /\ arrived = 0
    /\ sent = NoResponse
    /\ tally = <<>>
    /\ aged = {}
    /\ api_keys_str = <<>>
    /\ auth = NoAuth
    /\ unit = NoUnit
    /\ requests_per_minute = MaxRequests
    /\ decided = <<>>
    /\ ident = NoIdent
    /\ rotation = NoRotation
    /\ health = NoHealth
    /\ redis = NoRedis

NextRL ==
    \/ \E r \in Tasks : Dispatch(r)
    \/ \E r \in Tasks : RateLimitDependency(r)
    \/ \E r \in Tasks : Handler(r)
    \/ \E r \in Tasks : DispatchReturn(r)
    \/ \E r \in Tasks : HandlerRaises(r)
    \/ \E r \in Tasks : Cancel(r)
    \/ Tick

\* The rate limiter under concurrent request tasks.
SpecRL == InitRL /\ [][NextRL]_vars

\* ------------------------------------------------------------------------
\* Rate limiter: requests served one after another
\* ------------------------------------------------------------------------

\* Requests to a route without the per-route dependency.
ServeRequests == {q \in RLRequests : q.path \notin LimitedPaths}

\* The decision of the last check of `key`, as history.  `seq` is the parity
\* of the number of checks of the key, `slid` tells whether the check
\* pruned a timestamp, `headers` are the headers of the response.
Decision(key, allowed, current_time, request_count, slid, headers) ==
    [seq |-> IF key \in DOMAIN decided THEN 1 - decided[key].seq ELSE 0,
     allowed |-> allowed, current_time |-> current_time,
     request_count |-> request_count, slid |-> slid, headers |-> headers]

\* dispatch from entry to return (lines 93-135) for a request that no other
\* request interleaves with: the check, then either the 429 or the route
\* handler's response with the headers set on it.
Serve(request) ==
    LET client_id == get_client_id(request)
        current_time == clock
        window_start == current_time - Ticks(window_seconds)
        old == GetLog(request_counts, client_id)
        pruned == Prune(old, window_start)
        request_count == Len(pruned)
        remaining == Remaining(max_requests, request_count)
        reset_time == ResetTime(window_start, window_seconds)
        headers == RateLimitHeaders(max_requests, remaining, reset_time)
        over == OverLimit(request_count, max_requests)
    IN  /\ request_counts' =
              SetLog(request_counts, client_id,
                     Record(pruned, request_count, max_requests, current_time))
        /\ sent' = IF over
                   THEN [status_code |-> 429, headers |-> headers,
                         body |-> RateLimitedBody]
                   ELSE [status_code |-> 200, headers |-> headers,
                         body |-> [ok |-> TRUE]]
        /\ decided' =
              [k \in DOMAIN decided \cup {client_id} |->
                 IF k = client_id
                 THEN Decision(k, ~over, current_time, request_count,
                               pruned # old, headers)
                 ELSE decided[k]]
        /\ UNCHANGED <<clock, rl, arrived, tally, aged, requests_per_minute,
                       ident, authVars, opsVars>>

\* The middleware is constructed with any limit up to MaxRequests + 1.
InitServe ==
    /\ request_counts = <<>>
    /\ clock \in 0..MaxTime
    /\ rl = [r \in Tasks |-> NewTask]
    /\ arrived = 0
    /\ sent = NoResponse
    /\ tally = <<>>
    /\ aged = {}
    /\ api_keys_str = <<>>
    /\ auth = NoAuth
    /\ unit = NoUnit
    /\ requests_per_minute \in 1..(MaxRequests + 1)
    /\ decided = <<>>
    /\ ident = NoIdent
    /\ rotation = NoRotation
    /\ health = NoHealth
    /\ redis = NoRedis

NextServe ==
    \/ \E request \in ServeRequests : Serve(request)
    \/ Tick

\* The global middleware serving any number of requests, one at a time.
SpecServe == InitServe /\ [][NextServe]_vars

\* ------------------------------------------------------------------------
\* Rate limiter: the keys derived from requests
\* ------------------------------------------------------------------------

\* An API key of 17 characters, and one that differs in the 17th only.
KEY_long == <<"s", "e", "c", "r", "e", "t", "_", "k", "e", "y", "_", "0",
              "0", "0", "0", "1", "x">>

KEY_long2 == <<"s", "e", "c", "r", "e", "t", "_", "k", "e", "y", "_", "0",
               "0", "0", "0", "1", "y">>

\* Requests as the two key derivations see them: the headers X-API-Key,
\* X-Forwarded-For and X-Real-IP (None when missing, <<>> when empty), the
\* peer address of request.client (None when there is no client) and the
\* path.
ClientRequests ==
    [api_key : {None, Some(<<>>), Some(KEY_long), Some(KEY_long2),
                Some(<<"k">>)},
     forwarded : {None, Some(<<>>), Some(<<"2">>),
                  Some(<<" ", "3", " ", ",", "2">>), Some(<<",", "2">>)},
     real_ip : {None, Some(<<"9">>)},
     client : {None, Some(<<"1">>), Some(<<"2">>)},
     path : {PATH_limited, PATH_open}]

\* The middleware derives the client id of request a (line 93) and of
\* request b, and the per-route dependency the key of b (lines 186-187).
DeriveKeys ==
    /\ ident.pc = "requests"
    /\ ident' = [ident EXCEPT !.pc = "derived",
                               !.client_id = get_client_id(ident.a),
                               !.other_id = get_client_id(ident.b),
                               !.route_key = route_key(ident.b)]
    /\ UNCHANGED <<request_counts, clock, rl, arrived, sent, tally, aged,
                   requests_per_minute, decided, authVars, opsVars>>

InitClient ==
    /\ request_counts = <<>>
    /\ clock = 0
    /\ rl = [r \in Tasks |-> NewTask]
    /\ arrived = 0
    /\ sent = NoResponse
    /\ tally = <<>>
    /\ aged = {}
    /\ api_keys_str \in {<<>>, KEY_long}
    /\ auth = NoAuth
    /\ unit = NoUnit
    /\ requests_per_minute = MaxRequests
    /\ decided = <<>>
    /\ \E a \in ClientRequests, b \in ClientRequests :
          ident = [NoIdent EXCEPT !.pc = "requests", !.a = a, !.b = b]
    /\ rotation = NoRotation
    /\ health = NoHealth
    /\ redis = NoRedis

NextClient == DeriveKeys

\* The key derivations applied to every pair of requests.
SpecClient == InitClient /\ [][NextClient]_vars

\* ------------------------------------------------------------------------
\* Authentication: a request through the dependencies of get_current_user
\* ------------------------------------------------------------------------

\* The key of the documentation's example, "good_1234567890".
KEY_good == <<"g", "o", "o", "d", "_", "1", "2", "3", "4", "5", "6", "7",
              "8", "9", "0">>

\* A key of exactly eight characters.
KEY_eight == <<"a", "b", "a", "b", "a", "b", "a", "b">>

\* The values of API_KEYS: every short string of keys, commas and blanks,
\* and three with long keys.
ConfigStrs ==
    SeqsUpTo({"a", "b", ",", " "}, MaxCfgLen)
      \cup {KEY_good, <<" ">> \o KEY_good \o <<" ", ",", "b">>,
            KEY_eight \o <<",">> \o KEY_good}

\* The values of the X-API-Key header.
KeyStrs == SeqsUpTo({"a", "b"}, MaxKeyLen) \cup {KEY_good, KEY_eight}

\* The values of the Authorization header: a scheme and its credentials.
Authorizations ==
    {None,
     Some([scheme |-> "Bearer", credentials |-> <<"t">>]),
     Some([scheme |-> "bearer", credentials |-> <<"u">>]),
     Some([scheme |-> "Basic", credentials |-> <<"t">>]),
     Some([scheme |-> "Bearer", credentials |-> <<>>])}

\* api_key_header = APIKeyHeader(name="X-API-Key", auto_error=False): the
\* header's value, None when the header is missing or empty.
api_key_header(header) == IF Truthy(header) THEN header ELSE None

\* bearer_scheme = HTTPBearer(auto_error=False): the credentials of an
\* Authorization header of scheme bearer (any case), else None.
bearer_scheme(authorization) ==
    IF /\ authorization.some
       /\ authorization.v.scheme \in {"Bearer", "bearer"}
       /\ authorization.v.credentials # <<>>
    THEN Some(authorization.v.credentials)
    ELSE None

\* The dependencies of get_current_user, in the order of its parameters:
\* FastAPI solves them in this order, all of them, before the call, and the
\* first HTTPException ends the request.
DependencyOrderBearerFirst == <<"verify_bearer_token", "verify_api_key">>

DependencyOrder == <<"verify_api_key", "verify_bearer_token">>

AfterDependency(dep) ==
    IF dep = DependencyOrder[1] THEN DependencyOrder[2] ELSE "get_current_user"

\* A request to a route with Depends(get_current_user) arrives.
AuthRequest ==
    /\ auth.pc \in {"idle", "done"}
    /\ \E header \in {None} \cup {Some(k) : k \in KeyStrs},
          authorization \in Authorizations :
         auth' = [NoAuth EXCEPT
                    !.pc = DependencyOrder[1],
                    !.api_key = api_key_header(header),
                    !.credentials = bearer_scheme(authorization),
                    !.anonymous =
                       IF /\ auth.pc = "done"
                          /\ ~auth.api_key.some /\ ~auth.credentials.some
                       THEN auth.response
                       ELSE auth.anonymous]
    /\ UNCHANGED <<rlVars, api_keys_str, unit>>

\* The request ends with the answer to a raised HTTPException.
Raised(outcome) ==
    [auth EXCEPT !.pc = "done", !.outcome = outcome,
                 !.response = HTTPExceptionResponse(outcome.exc)]

SolveVerifyApiKey ==
    /\ auth.pc = "verify_api_key"
    /\ LET outcome == verify_api_key(auth.api_key, api_keys(api_keys_str))
       IN  auth' = IF outcome.kind = "raise" THEN Raised(outcome)
                   ELSE [auth EXCEPT !.pc = AfterDependency("verify_api_key"),
                                     !.key_result = outcome.value]
    /\ UNCHANGED <<rlVars, api_keys_str, unit>>

SolveVerifyBearerToken ==
    /\ auth.pc = "verify_bearer_token"
    /\ LET outcome == verify_bearer_token(auth.credentials)
       IN  auth' = IF outcome.kind = "raise" THEN Raised(outcome)
                   ELSE [auth EXCEPT
                           !.pc = AfterDependency("verify_bearer_token"),
                           !.token_payload = outcome.value]
    /\ UNCHANGED <<rlVars, api_keys_str, unit>>

\* get_current_user is called with the two results; the route answers 200
\* with the principal it returns.
CallGetCurrentUser ==
    /\ auth.pc = "get_current_user"
    /\ LET outcome == get_current_user(auth.key_result, auth.token_payload)
       IN  auth' = IF outcome.kind = "raise" THEN Raised(outcome)
                   ELSE [auth EXCEPT
                           !.pc = "done", !.outcome = outcome,
                           !.response = [status_code |-> 200, headers |-> {},
                                         body |-> [user |-> outcome.value]]]
    /\ UNCHANGED <<rlVars, api_keys_str, unit>>

InitAuth ==
    /\ request_counts = <<>>
    /\ clock = 0
    /\ rl = [r \in Tasks |-> NewTask]
    /\ arrived = 0
    /\ sent = NoResponse
    /\ tally = <<>>
    /\ aged = {}
    /\ api_keys_str \in ConfigStrs
    /\ auth = NoAuth
    /\ unit = NoUnit
    /\ requests_per_minute = MaxRequests
    /\ decided = <<>>
    /\ ident = NoIdent
    /\ rotation = NoRotation
    /\ health = NoHealth
    /\ redis = NoRedis

NextAuth ==
    \/ AuthRequest
    \/ SolveVerifyApiKey
    \/ SolveVerifyBearerToken
    \/ CallGetCurrentUser

\* Requests to a route protected by get_current_user, one after another.
SpecAuth == InitAuth /\ [][NextAuth]_vars

\* ------------------------------------------------------------------------
\* Authentication: the three functions called directly
\* ------------------------------------------------------------------------

\* Token payloads (claims), as lists of pairs; {} among them.
Payloads == {<<>>, <<<<"sub", "u">>>>, <<<<"sub", "u">>, <<"aud", "x">>>>}

CallVerifyApiKey ==
    /\ \E api_key \in {None} \cup {Some(k) : k \in KeyStrs} :
         unit' = [fn |-> "verify_api_key", api_key |-> api_key, arg |-> None,
                  outcome |-> verify_api_key(api_key, api_keys(api_keys_str))]
    /\ UNCHANGED <<rlVars, api_keys_str, auth>>

CallVerifyBearerToken ==
    /\ \E credentials \in {None, Some(<<>>), Some(<<"t">>), Some(<<"u">>)} :
         unit' = [fn |-> "verify_bearer_token", api_key |-> None,
                  arg |-> credentials,
                  outcome |-> verify_bearer_token(credentials)]
    /\ UNCHANGED <<rlVars, api_keys_str, auth>>

CallGetCurrentUserDirectly ==
    /\ \E api_key \in {None} \cup {Some(k) : k \in KeyStrs},
          token_payload \in {None} \cup {Some(c) : c \in Payloads} :
         unit' = [fn |-> "get_current_user", api_key |-> api_key,
                  arg |-> token_payload,
                  outcome |-> get_current_user(api_key, token_payload)]
    /\ UNCHANGED <<rlVars, api_keys_str, auth>>

NextAuthUnit ==
    \/ CallVerifyApiKey
    \/ CallVerifyBearerToken
    \/ CallGetCurrentUserDirectly

\* Direct calls of verify_api_key, verify_bearer_token and get_current_user
\* under every configuration.
SpecAuthUnit == InitAuth /\ [][NextAuthUnit]_vars

\* ------------------------------------------------------------------------
\* Rate limiter: what the claims speak of
\* ------------------------------------------------------------------------

\* The keys the requests can produce, in the two scopes.
GlobalKeys == {get_client_id(q) : q \in RLRequests}

RouteKeys == {route_key(q) : q \in {x \in RLRequests : x.path \in LimitedPaths}}

AllKeys == GlobalKeys \cup RouteKeys

LimitOf(key) == IF key \in RouteKeys THEN RouteRequests ELSE max_requests

WindowOf(key) == IF key \in RouteKeys THEN RouteWindowSeconds ELSE window_seconds

Admitted(t, key) == GetTally(t, key)[1]

Rejected(t, key) == GetTally(t, key)[2]

\* The number of timestamps of a log inside the window that ends at `now`.
InWindow(log, now, window) ==
    Cardinality({i \in 1..Len(log) : log[i] > now - Ticks(window)})

\* This step is a check of `key`; its clock reading is `clock`.
CheckOf(key) == GetTally(tally', key) # GetTally(tally, key)

CheckAdmits(key) == Admitted(tally', key) = Admitted(tally, key) + 1

CheckRejects(key) == Rejected(tally', key) = Rejected(tally, key) + 1

\* C1: N checks of one client identity by the global middleware, N above
\* the limit L, none of whose timestamps aged out, starting from an empty
\* log: exactly L were admitted and N - L rejected, however the request
\* tasks interleave.
C1_ExactlyLimitAdmitted ==
    \A key \in GlobalKeys :
        LET n == Admitted(tally, key) + Rejected(tally, key)
        IN  (key \notin aged /\ n > max_requests)
            => /\ Admitted(tally, key) = max_requests
               /\ Rejected(tally, key) = n - max_requests

\* All NReq requests were checked, more than the limit, while an admitted
\* one is still awaiting call_next.
C1_Witness ==
    \E key \in GlobalKeys :
        /\ key \notin aged
        /\ Admitted(tally, key) + Rejected(tally, key) = NReq
        /\ NReq > max_requests
        /\ Rejected(tally, key) >= 1
        /\ \E r \in Tasks : rl[r].pc = "call_next"

\* C2: in either scope a check that finds n >= limit timestamps inside the
\* window is rejected (n = limit included), and so is the check that follows
\* `limit` admitted ones of which none aged out.
C2_AtLimitRejected ==
    [][\A key \in AllKeys :
          CheckOf(key) =>
            LET n == InWindow(GetLog(request_counts, key), clock, WindowOf(key))
            IN  /\ n >= LimitOf(key) => CheckRejects(key)
                /\ (key \notin aged' /\ Admitted(tally, key) >= LimitOf(key))
                     => CheckRejects(key)
                /\ (key \in GlobalKeys /\ n >= LimitOf(key))
                     => sent'.status_code = 429]_vars

\* The global middleware rejected a check that found exactly `limit`
\* timestamps, none aged out.
C2_Witness ==
    \E key \in GlobalKeys :
        /\ key \notin aged
        /\ Rejected(tally, key) >= 1
        /\ Len(GetLog(request_counts, key)) = max_requests
        /\ sent.status_code = 429

\* C3: a rejected check, of the middleware or of the per-route dependency,
\* leaves the key's log, and the whole map, as it was.
C3_RejectionLeavesLog ==
    [][\A key \in AllKeys :
          (CheckOf(key) /\ CheckRejects(key))
            => /\ GetLog(request_counts', key) = GetLog(request_counts, key)
               /\ request_counts' = request_counts]_vars

\* The per-route dependency has rejected a check whose log was full.
C3_Witness ==
    \E key \in RouteKeys :
        /\ Rejected(tally, key) >= 1
        /\ Len(GetLog(request_counts, key)) = RouteRequests

\* C4: a check that finds n < limit timestamps inside the window is
\* admitted and appends its clock reading to the log; every check ends
\* admitted or rejected.
C4_BelowLimitAdmitted ==
    [][\A key \in AllKeys :
          CheckOf(key) =>
            LET n == InWindow(GetLog(request_counts, key), clock, WindowOf(key))
                log == GetLog(request_counts', key)
            IN  /\ CheckAdmits(key) # CheckRejects(key)
                /\ n < LimitOf(key)
                     => /\ CheckAdmits(key)
                        /\ Len(log) = n + 1
                        /\ log[Len(log)] = clock]_vars

\* A second check was admitted after the first one's timestamp aged out.
C4_Witness ==
    \E key \in GlobalKeys :
        /\ Admitted(tally, key) = NReq
        /\ key \in aged
        /\ Len(GetLog(request_counts, key)) >= 1

\* ------------------------------------------------------------------------
\* Authentication: what the claims speak of
\* ------------------------------------------------------------------------

\* The configured valid keys.
ValidKeys == api_keys(api_keys_str)

InvalidApiKey(exc) ==
    exc.status_code = 401 /\ exc.detail = "Invalid API key"

BearerNotConfigured(exc) ==
    /\ exc.status_code = 401
    /\ exc.detail = "Bearer token authentication not configured"

AuthenticationRequired(exc) ==
    exc.status_code = 401 /\ exc.detail = "Authentication required"

\* C5: a request whose API key is in the configured set is authenticated as
\* the api_key principal, whether or not it also carries a bearer token.
C5_ValidKeyWins ==
    (auth.pc = "done" /\ auth.api_key.some /\ InList(auth.api_key.v, ValidKeys))
      => /\ auth.outcome.kind = "return"
         /\ auth.outcome.value.type = "api_key"
         /\ auth.response.status_code = 200

\* C6: a request with an API key outside the configured set and a bearer
\* token ends with the invalid-API-key error, not the bearer error, and
\* without a principal.
C6_InvalidKeyFailsFirst ==
    (/\ auth.pc = "done"
     /\ auth.api_key.some /\ ~InList(auth.api_key.v, ValidKeys)
     /\ auth.credentials.some)
      => /\ auth.outcome.kind = "raise"
         /\ InvalidApiKey(auth.outcome.exc)
         /\ ~BearerNotConfigured(auth.outcome.exc)
         /\ auth.response.status_code = 401
         /\ auth.response.body = [detail |-> "Invalid API key"]

\* A request with an unknown key and a bearer token was answered, under a
\* configuration that has keys.
C6_Witness ==
    /\ auth.pc = "done"
    /\ auth.api_key.some /\ ~InList(auth.api_key.v, ValidKeys)
    /\ auth.credentials.some
    /\ ValidKeys # <<>>
    /\ auth.outcome.kind = "raise"

\* C7: verify_api_key returns None for None, raises the invalid-API-key 401
\* for every present key outside the configured set, the empty string
\* included, and returns every key of the set unchanged.
C7_VerifyApiKey ==
    unit.fn = "verify_api_key" =>
        LET api_key == unit.api_key
            valid == \E i \in 1..Len(ValidKeys) : ValidKeys[i] = api_key.v
        IN  /\ ~api_key.some => unit.outcome = Return(None)
            /\ (api_key.some /\ ~valid)
                 => /\ unit.outcome.kind = "raise"
                    /\ InvalidApiKey(unit.outcome.exc)
            /\ (api_key.some /\ valid) => unit.outcome = Return(api_key)
            /\ api_key = Some(<<>>) => unit.outcome.kind = "raise"
            /\ (unit.outcome.kind = "return" /\ unit.outcome.value.some)
                 => /\ valid
                    /\ unit.outcome.value.v # <<>>

\* verify_api_key returned the second key of a configuration of two keys.
C7_Witness ==
    /\ unit.fn = "verify_api_key"
    /\ Len(ValidKeys) = 2
    /\ unit.api_key = Some(ValidKeys[2])
    /\ unit.outcome = Return(unit.api_key)

\* C8: verify_bearer_token returns None for None and raises the
\* bearer-not-configured 401 for every present token, under every
\* configuration.
C8_VerifyBearerToken ==
    unit.fn = "verify_bearer_token" =>
        /\ ~unit.arg.some => unit.outcome = Return(None)
        /\ unit.arg.some
             => /\ unit.outcome.kind = "raise"
                /\ BearerNotConfigured(unit.outcome.exc)

\* verify_bearer_token rejected a token under a configuration with keys.
C8_Witness ==
    /\ unit.fn = "verify_bearer_token"
    /\ unit.arg = Some(<<"t">>)
    /\ ValidKeys # <<>>
    /\ unit.outcome.kind = "raise"

\* A verified API key is None or a key of the configured set; a verified
\* payload is None or the claims of a token, of which there is at least one.
VerifiedInputs ==
    /\ unit.api_key.some => InList(unit.api_key.v, ValidKeys)
    /\ unit.arg.some => unit.arg.v # <<>>

\* C9: get_current_user, given verified inputs, returns the api_key
\* principal with the key's first 8 characters and "..." when the key is
\* present, else the token principal with the payload when the payload is
\* present, else raises the authentication-required 401.
C9_GetCurrentUser ==
    (unit.fn = "get_current_user" /\ VerifiedInputs) =>
        LET api_key == unit.api_key
            token_payload == unit.arg
            n == IF Len(api_key.v) < 8 THEN Len(api_key.v) ELSE 8
        IN  /\ api_key.some
                 => unit.outcome =
                      Return([type |-> "api_key",
                              key_prefix |-> [i \in 1..(n + 3) |->
                                                IF i <= n THEN api_key.v[i]
                                                ELSE "."]])
            /\ api_key = Some(KEY_good)
                 => unit.outcome.value.key_prefix =
                      <<"g", "o", "o", "d", "_", "1", "2", "3", ".", ".", ".">>
            /\ (~api_key.some /\ token_payload.some)
                 => unit.outcome =
                      Return([type |-> "token", payload |-> token_payload.v])
            /\ (~api_key.some /\ ~token_payload.some)
                 => /\ unit.outcome.kind = "raise"
                    /\ AuthenticationRequired(unit.outcome.exc)

\* get_current_user was given the configured key "good_1234567890" and a
\* payload, and returned the api_key principal.
C9_Witness ==
    /\ unit.fn = "get_current_user"
    /\ VerifiedInputs
    /\ unit.api_key = Some(KEY_good)
    /\ unit.arg.some
    /\ unit.outcome.kind = "return"
    /\ unit.outcome.value.type = "api_key"

\* C10: every authentication failure is answered 401 with the header
\* WWW-Authenticate: Bearer.
C10_Every401Challenges ==
    (auth.pc = "done" /\ auth.outcome.kind = "raise")
      => /\ auth.response.status_code = 401
         /\ <<"WWW-Authenticate", "Bearer">> \in auth.response.headers

\* C11: a request with no credentials to a route protected by
\* get_current_user is answered 401 with a JSON body of the shape
\* {"error": {"code": "UNAUTHORIZED", "message": ...}}.
C11_NoCredentialsErrorBody ==
    (auth.pc = "done" /\ ~auth.api_key.some /\ ~auth.credentials.some)
      => /\ auth.response.status_code = 401
         /\ "error" \in DOMAIN auth.response.body
         /\ auth.response.body.error.code = "UNAUTHORIZED"

\* The error code a response body carries, None when it carries none.
ErrorCode(response) ==
    IF "error" \in DOMAIN response.body
    THEN Some(response.body.error.code)
    ELSE None

\* C12: the 401 for an unrecognized API key and the 401 for no credential
\* carry the same status and the same error code.
C12_SameErrorCode ==
    (/\ auth.pc = "done"
     /\ auth.api_key.some /\ ~InList(auth.api_key.v, ValidKeys)
     /\ auth.anonymous # NoResponse)
      => /\ auth.response.status_code = 401
         /\ auth.response.status_code = auth.anonymous.status_code
         /\ ErrorCode(auth.response).some
         /\ ErrorCode(auth.anonymous).some
         /\ ErrorCode(auth.response) = ErrorCode(auth.anonymous)

\* ------------------------------------------------------------------------
\* Responses of the rate limiter
\* ------------------------------------------------------------------------

HasHeader(headers, name) == \E h \in headers : h[1] = name

\* C13: every request rejected by the rate limiter, by the middleware or by
\* the per-route dependency, is answered 429 with the headers
\* X-RateLimit-Limit, X-RateLimit-Remaining: 0 and X-RateLimit-Reset and the
\* body {error: {code: "RATE_LIMITED", message: ...}}.
C13_RejectionResponse ==
    sent.status_code = 429
      => /\ HasHeader(sent.headers, "X-RateLimit-Limit")
         /\ <<"X-RateLimit-Remaining", 0>> \in sent.headers
         /\ HasHeader(sent.headers, "X-RateLimit-Reset")
         /\ "error" \in DOMAIN sent.body
         /\ sent.body.error.code = "RATE_LIMITED"

\* C15: for every check the middleware rejects, the X-RateLimit-Reset value
\* (whole seconds) is not before the clock reading of the check (which has
\* sub-second resolution).
C15_ResetNotBeforeNow ==
    [][\A key \in GlobalKeys :
          (CheckOf(key) /\ CheckRejects(key))
            => /\ HasHeader(sent'.headers, "X-RateLimit-Reset")
               /\ \A h \in sent'.headers :
                     h[1] = "X-RateLimit-Reset" => Ticks(h[2]) >= clock]_vars

\* This step is a check of `key` that follows an earlier check of it.
NextCheckOf(key) ==
    /\ key \in DOMAIN decided
    /\ decided'[key].seq # decided[key].seq

\* The value of the header `name`.
HeaderValue(headers, name) == (CHOOSE h \in headers : h[1] = name)[2]

\* C14: the X-RateLimit-Reset value of a 429 is the time when the window
\* resets: the identity's next request, made at that time with no request
\* of it in between, is admitted.  (Only reset values not before the clock
\* reading of the rejection are considered.)
C14_AdmittedAtReset ==
    [][\A key \in GlobalKeys :
          (/\ NextCheckOf(key)
           /\ ~decided[key].allowed
           /\ Ticks(HeaderValue(decided[key].headers, "X-RateLimit-Reset"))
                 >= decided[key].current_time
           /\ clock = Ticks(HeaderValue(decided[key].headers,
                                        "X-RateLimit-Reset")))
            => decided'[key].allowed]_vars

\* This step is a check of `key`, the first one or a later one.
CheckedNow(key) ==
    /\ key \in DOMAIN decided'
    /\ key \in DOMAIN decided => decided'[key].seq # decided[key].seq

\* C16: a check by the global middleware that finds n timestamps inside the
\* window reports the configured limit, and as remaining max(0, limit-n-1)
\* when it admits and 0 when it rejects; the response sent carries these
\* headers.
C16_LimitAndRemaining ==
    [][\A key \in GlobalKeys :
          CheckedNow(key) =>
            LET n == InWindow(GetLog(request_counts, key), clock,
                              window_seconds)
                limit == requests_per_minute
                d == decided'[key]
                expected == IF ~d.allowed THEN 0
                            ELSE IF limit - n - 1 > 0 THEN limit - n - 1
                            ELSE 0
            IN  /\ d.allowed = (n < limit)
                /\ HeaderValue(d.headers, "X-RateLimit-Limit") = limit
                /\ HeaderValue(d.headers, "X-RateLimit-Remaining") = expected
                /\ Cardinality(d.headers) = 3
                /\ sent'.headers = d.headers
                /\ sent'.status_code = IF d.allowed THEN 200 ELSE 429]_vars

\* A check was rejected under a limit of two or more, after one that left
\* a request remaining was admitted.
C16_Witness ==
    \E key \in GlobalKeys :
        /\ key \in DOMAIN decided
        /\ requests_per_minute >= 2
        /\ ~decided[key].allowed
        /\ decided[key].request_count = requests_per_minute
        /\ <<"X-RateLimit-Remaining", 0>> \in sent.headers
        /\ sent.status_code = 429

\* C17: for one identity, of two consecutive admitted checks the second of
\* which pruned no timestamp, the second reports a remaining value that is
\* not above the first's.
C17_RemainingNonIncreasing ==
    [][\A key \in GlobalKeys :
          (/\ NextCheckOf(key)
           /\ decided[key].allowed
           /\ decided'[key].allowed
           /\ ~decided'[key].slid)
            => HeaderValue(decided'[key].headers, "X-RateLimit-Remaining")
                 <= HeaderValue(decided[key].headers, "X-RateLimit-Remaining")
       ]_vars

\* A second check in a row was admitted without any timestamp aging out.
C17_Witness ==
    \E key \in GlobalKeys :
        /\ key \in DOMAIN decided
        /\ decided[key].allowed
        /\ ~decided[key].slid
        /\ decided[key].request_count >= 1
        /\ HeaderValue(decided[key].headers, "X-RateLimit-Remaining")
             = requests_per_minute - decided[key].request_count - 1

\* ------------------------------------------------------------------------
\* Keys of the rate limiter
\* ------------------------------------------------------------------------

\* C18: the key the global middleware derives from a request differs from
\* the key the per-route dependency derives from any request, so recording
\* a check under one of them leaves the log read under the other as it was.
C18_ScopesShareNoCounter ==
    ident.pc = "derived"
      => /\ ident.client_id # ident.route_key
         /\ ident.other_id # ident.route_key
         /\ \A log \in {<<>>, <<0>>} :
               /\ GetLog(SetLog(SetLog(<<>>, ident.route_key, log),
                                ident.client_id, <<1>>),
                         ident.route_key) = log
               /\ GetLog(SetLog(SetLog(<<>>, ident.client_id, log),
                                ident.route_key, <<1>>),
                         ident.client_id) = log

\* The two keys of one request without an API key from peer 1 to the
\* rate-limited route were derived.
C18_Witness ==
    /\ ident.pc = "derived"
    /\ ident.a = ident.b
    /\ ident.a.path = PATH_limited
    /\ ident.client_id = STR_ip \o <<"1">>
    /\ ident.route_key = STR_route \o PATH_limited \o <<":", "1">>

\* C19: the client identity is the truncated API key if the request has
\* one, else the first entry of X-Forwarded-For if present, else X-Real-IP
\* if present, else the peer address, else "unknown".  (A header counts as
\* present when it is not empty, as the code has it.)
C19_IdentityPriority ==
    ident.pc = "derived"
      => LET request == ident.a
             first == Strip(Head(Split(request.forwarded.v)))
         IN  ident.client_id =
               IF Truthy(request.api_key)
               THEN STR_key \o SubSeq(request.api_key.v, 1, 16)
               ELSE IF Truthy(request.forwarded) THEN STR_ip \o first
               ELSE IF Truthy(request.real_ip)
               THEN STR_ip \o request.real_ip.v
               ELSE IF request.client.some THEN STR_ip \o request.client.v
               ELSE STR_ip \o STR_unknown

\* C20: two requests with the same X-API-Key, X-Forwarded-For and peer
\* address get the same identity, whatever else differs; the identity is
\* never the empty string; without key, forwarded address and peer it is
\* the sentinel "unknown".
C20_IdentityDeterministicNonEmpty ==
    ident.pc = "derived"
      => /\ (/\ ident.a.api_key = ident.b.api_key
             /\ ident.a.forwarded = ident.b.forwarded
             /\ ident.a.client = ident.b.client)
              => ident.client_id = ident.other_id
         /\ Len(ident.client_id) > 0
         /\ Len(ident.other_id) > 0
         /\ (/\ ~Truthy(ident.a.api_key)
             /\ ~Truthy(ident.a.forwarded)
             /\ ~ident.a.client.some)
              => ident.client_id = <<"i", "p", ":", "u", "n", "k", "n", "o",
                                    "w", "n">>

\* Two requests with empty X-API-Key and X-Forwarded-For headers and no
\* peer, which differ in path and X-Real-IP, both got the sentinel.
C20_Witness ==
    /\ ident.pc = "derived"
    /\ ident.a.api_key = Some(<<>>) /\ ident.b.api_key = Some(<<>>)
    /\ ident.a.forwarded = Some(<<>>) /\ ident.b.forwarded = Some(<<>>)
    /\ ~ident.a.client.some /\ ~ident.b.client.some
    /\ ident.a.path # ident.b.path
    /\ ident.a.real_ip # ident.b.real_ip
    /\ ident.client_id = ident.other_id
    /\ ident.client_id = STR_ip \o STR_unknown

\* C21: admission is final.  When the handler of an admitted request fails,
\* or the request is cancelled while it is handled, the step that ends the
\* request without the handler's response leaves every log as it was: the
\* timestamp recorded at the admission stays and is counted by later checks.
C21_AdmissionIsFinal ==
    [][\A r \in Tasks :
          (rl[r].pc = "call_next" /\ rl'[r].pc = "done")
              => /\ request_counts' = request_counts
                 /\ tally' = tally]_vars

\* A request failed in its handler and its timestamp is in the log while
\* the next request has not been checked yet.
C21_Witness ==
    /\ sent.status_code = 500
    /\ rl[1].pc = "done"
    /\ rl[2].pc = "start"
    /\ \E key \in GlobalKeys :
          /\ Admitted(tally, key) = 1
          /\ GetLog(request_counts, key) # <<>>

\* C24: after every check, at clock reading now and with window w, each
\* timestamp left in the checked log is strictly greater than now - w; when
\* every earlier timestamp is at most now - w (one of them exactly w old
\* included) none of them is counted: the check admits and the log holds
\* the check's timestamp alone.
C24_StrictWindow ==
    [][\A key \in AllKeys :
          CheckOf(key) =>
              LET old == GetLog(request_counts, key)
                  log == GetLog(request_counts', key)
                  w == Ticks(WindowOf(key))
              IN  /\ \A i \in 1..Len(log) : log[i] > clock - w
                  /\ (\A i \in 1..Len(old) : old[i] <= clock - w)
                        => CheckAdmits(key) /\ log = <<clock>>]_vars

\* A request checked exactly one window after an admitted one: the earlier
\* timestamp, 0, equals now - w, was pruned, and the request was admitted.
C24_Witness ==
    /\ clock = Ticks(window_seconds)
    /\ \E key \in GlobalKeys :
          /\ key \in aged
          /\ Admitted(tally, key) = 2
          /\ Rejected(tally, key) = 0
          /\ GetLog(request_counts, key) = <<Ticks(window_seconds)>>

\* C25: pruning is lazy and local.  A check of one key decides by that key's
\* log alone and changes that key's log alone; a step that is no check
\* changes no log, so stale entries stay until their key is checked again;
\* and no step removes a key from the map.
C25_LazyLocalPruning ==
    [][/\ DOMAIN request_counts \subseteq DOMAIN request_counts'
       /\ tally' = tally => request_counts' = request_counts
       /\ \A key \in AllKeys :
             CheckOf(key) =>
                 /\ DOMAIN request_counts' = DOMAIN request_counts \cup {key}
                 /\ \A k \in DOMAIN request_counts \ {key} :
                       request_counts'[k] = request_counts[k]
                 /\ CheckAdmits(key) <=>
                       InWindow(GetLog(request_counts, key), clock,
                                WindowOf(key)) < LimitOf(key)]_vars

\* The first request's timestamp in the client's global log is a window old
\* and still stored, after the per-route key of the same request was
\* checked at the current clock reading.
C25_Witness ==
    /\ arrived = 1
    /\ clock = Ticks(window_seconds)
    /\ \E g \in GlobalKeys, k \in RouteKeys :
          /\ GetLog(request_counts, g) = <<0>>
          /\ GetLog(request_counts, k) = <<clock>>

\* C26: the middleware's 429 is terminal and admission precedes handling.
\* A request's dispatch reaches call_next exactly when its check admits, in
\* the step that appends its timestamp to the log and computes its headers;
\* a rejected request is answered 429 in the step of its check and never
\* reaches call_next; a request that left call_next never enters it again;
\* and the response sent after the handler carries the three headers with
\* the values computed at the check.
C26_AdmissionPrecedesHandling ==
    [][\A r \in Tasks :
          /\ (rl[r].pc = "start" /\ rl'[r].pc # "start") =>
                \E key \in GlobalKeys :
                    LET count == InWindow(GetLog(request_counts, key), clock,
                                          window_seconds)
                        log == GetLog(request_counts', key)
                    IN  /\ CheckOf(key)
                        /\ CheckAdmits(key) <=> rl'[r].pc = "call_next"
                        /\ CheckAdmits(key) =>
                              /\ key = get_client_id(rl'[r].request)
                              /\ log # <<>> /\ log[Len(log)] = clock
                              /\ rl'[r].headers =
                                    RateLimitHeaders(
                                        max_requests,
                                        Remaining(max_requests, count),
                                        ResetTime(clock - Ticks(window_seconds),
                                                  window_seconds))
                        /\ CheckRejects(key) =>
                              rl'[r].pc = "done" /\ sent'.status_code = 429
          /\ rl'[r].pc = "call_next" => rl[r].pc \in {"start", "call_next"}
          /\ rl'[r].pc = "responded" => rl[r].pc \in {"call_next", "responded"}
          /\ rl'[r].pc = "start" => rl[r].pc = "start"
          /\ (rl[r].pc \in {"call_next", "responded"}
                  /\ rl'[r].pc \in {"call_next", "responded"})
                => rl'[r].headers = rl[r].headers
          /\ (rl[r].pc = "responded" /\ rl'[r].pc = "done")
                => /\ sent'.status_code = rl[r].response.status_code
                   /\ sent'.body = rl[r].response.body
                   /\ rl[r].headers \subseteq sent'.headers
                   /\ Cardinality(rl[r].headers) = 3]_vars

\* The first request was answered by its handler after the clock had moved
\* on: the X-RateLimit-Reset of the response is the value of the check, not
\* the value a computation at the time of the response would give.
C26_Witness ==
    /\ rl[1].pc = "done"
    /\ rl[2].pc = "start"
    /\ sent.status_code = 200
    /\ HasHeader(sent.headers, "X-RateLimit-Reset")
    /\ HeaderValue(sent.headers, "X-RateLimit-Reset") # IntSeconds(clock)

\* C27: in every reachable state the log of every key of the global scope
\* holds at most as many timestamps as the middleware's limit, whether the
\* clock moved forward, stood still or moved backward between the checks.
C27_LogWithinLimit ==
    \A key \in GlobalKeys :
        Len(GetLog(request_counts, key)) <= max_requests

\* The log is full, a request was rejected, and the clock reads less than
\* the newest stored timestamp: it was set back after an admission.
C27_Witness ==
    \E key \in GlobalKeys :
        LET log == GetLog(request_counts, key)
        IN  /\ Len(log) = max_requests
            /\ log[Len(log)] > clock
            /\ Rejected(tally, key) >= 1
            /\ Admitted(tally, key) >= 1

\* C28: get_current_user, called after its two dependencies were resolved,
\* returns a principal only for a request whose API key is one of the
\* configured keys; the principal is of type "api_key" and never of type
\* "token"; and under an empty API_KEYS configuration no request is
\* authenticated.
C28_OnlyValidKeysAuthenticate ==
    /\ (auth.pc = "done" /\ auth.outcome.kind = "return")
          => /\ auth.api_key.some
             /\ \E i \in 1..Len(ValidKeys) : ValidKeys[i] = auth.api_key.v
             /\ auth.outcome.value.type = "api_key"
             /\ auth.outcome.value.type # "token"
             /\ auth.outcome.value.key_prefix = key_prefix(auth.api_key.v)
    /\ (auth.pc = "done" /\ ValidKeys = <<>>)
          => /\ auth.outcome.kind = "raise"
             /\ auth.response.status_code = 401
    /\ (auth.pc = "done" /\ auth.response.status_code = 200)
          => auth.outcome.kind = "return"

\* A request was authenticated by the second key of a configuration of two
\* keys.
C28_Witness ==
    /\ auth.pc = "done"
    /\ auth.outcome.kind = "return"
    /\ Len(ValidKeys) = 2
    /\ auth.api_key = Some(ValidKeys[2])

\* C29: the global limiter buckets by the X-API-Key header as it was sent.
\* Two requests with non-empty X-API-Key headers have the same client id,
\* and so the same counter, exactly when the first 16 characters of their
\* keys are equal, whatever API_KEYS holds and whatever their
\* X-Forwarded-For headers and peer addresses are.
C29_BucketByKeyPrefix ==
    (/\ ident.pc = "derived"
     /\ Truthy(ident.a.api_key)
     /\ Truthy(ident.b.api_key))
      => (ident.client_id = ident.other_id
            <=> Slice(ident.a.api_key.v, ClientKeyLen)
                  = Slice(ident.b.api_key.v, ClientKeyLen))

\* Two requests of one peer address, one with a configured key and one with
\* a key that is not configured, fall into different buckets.
C29_Witness ==
    /\ ident.pc = "derived"
    /\ ident.a.client = Some(<<"1">>) /\ ident.b.client = ident.a.client
    /\ ident.a.forwarded = None /\ ident.b.forwarded = None
    /\ ident.a.api_key = Some(KEY_long) /\ InList(KEY_long, ValidKeys)
    /\ ident.b.api_key = Some(<<"k">>) /\ ~InList(<<"k">>, ValidKeys)
    /\ ident.client_id # ident.other_id

\* ------------------------------------------------------------------------
\* Health probes
\* ------------------------------------------------------------------------

\* The state the health routes do not touch.
webVars == <<request_counts, clock, rl, arrived, sent, tally, aged,
             limiterVars, authVars>>

\* The values of settings.app_name.
AppNames == {"my-api", "orders"}

\* A handler returned a response model: FastAPI answers 200 with its fields.
ModelResponse(model) == [status_code |-> 200, headers |-> {}, body |-> model]

HealthResponse(status, service, version) ==
    [status |-> status, service |-> service, version |-> version]

ReadinessResponse(status, checks) == [status |-> status, checks |-> checks]

\* all(checks.values())
all(checks) == \A k \in DOMAIN checks : checks[k]

\* The checks with the cache reported as down.
ChecksRedisDown == [database |-> TRUE, redis |-> FALSE]

\* checks["database"] = True; checks["redis"] = True: the probes of the
\* database and of Redis are comments in the code.
Checks == [database |-> TRUE, redis |-> TRUE]

Answer(endpoint, response) ==
    health' = [health EXCEPT !.probes = @ + 1,
                             !.answered[endpoint] = response]

\* GET /health
health_check ==
    /\ health.probes < MaxProbes
    /\ Answer("health",
              ModelResponse(HealthResponse("healthy", health.app_name, "0.1.0")))
    /\ UNCHANGED <<webVars, rotation, redis>>

\* GET /health/ready
readiness_check ==
    /\ health.probes < MaxProbes
    /\ LET checks == Checks
           all_healthy == all(checks)
       IN  health' =
             [health EXCEPT
                !.probes = @ + 1,
                !.at_probe = <<health.database, health.redis>>,
                !.answered["ready"] =
                   ModelResponse(
                     ReadinessResponse(
                       IF all_healthy THEN "ready" ELSE "not_ready", checks))]
    /\ UNCHANGED <<webVars, rotation, redis>>

\* GET /health/live
liveness_check ==
    /\ health.probes < MaxProbes
    /\ Answer("live",
              ModelResponse(HealthResponse("alive", health.app_name, "0.1.0")))
    /\ UNCHANGED <<webVars, rotation, redis>>

\* The database goes down or comes back.
DatabaseChanges ==
    /\ health' = [health EXCEPT !.database = ~@]
    /\ UNCHANGED <<webVars, rotation, redis>>

\* The cache goes down or comes back.
RedisChanges ==
    /\ health' = [health EXCEPT !.redis = ~@]
    /\ UNCHANGED <<webVars, rotation, redis>>

InitHealth ==
    /\ request_counts = <<>>
    /\ clock = 0
    /\ rl = [r \in Tasks |-> NewTask]
    /\ arrived = 0
    /\ sent = NoResponse
    /\ tally = <<>>
    /\ aged = {}
    /\ api_keys_str = <<>>
    /\ auth = NoAuth
    /\ unit = NoUnit
    /\ requests_per_minute = MaxRequests
    /\ decided = <<>>
    /\ ident = NoIdent
    /\ rotation = NoRotation
    /\ \E name \in AppNames : health = [NoHealth EXCEPT !.app_name = name]
    /\ redis = NoRedis

NextHealth ==
    \/ health_check
    \/ readiness_check
    \/ liveness_check
    \/ DatabaseChanges
    \/ RedisChanges

\* The health routes probed while the dependencies come and go.
SpecHealth == InitHealth /\ [][NextHealth]_vars

get_redis_client(g) ==
    /\ redis.get[g].pc \in {"idle", "returned"}
    /\ IF ~redis.available
       THEN redis' = [redis EXCEPT !.get[g] = [NoGet EXCEPT !.pc = "raised"]]
       ELSE IF redis.client = 0
       THEN redis' = [redis EXCEPT !.get[g] = [NoGet EXCEPT !.pc = "from_url"]]
       ELSE redis' = [redis EXCEPT !.get[g] =
                         [pc |-> "returned", client |-> redis.client,
                          epoch |-> redis.epoch]]
    /\ UNCHANGED <<webVars, rotation, health>>

\* `await from_url(...)` returns a new client to task g: the assignment of
\* line 90 and the return of line 96.
from_url(g) ==
    /\ redis.get[g].pc = "from_url"
    /\ redis.next < MaxClients
    /\ redis' = [redis EXCEPT !.next = @ + 1,
                             !.made = @ + 1,
                             !.client = redis.next + 1,
                             !.get[g] = [pc |-> "returned",
                                         client |-> redis.next + 1,
                                         epoch |-> redis.epoch]]
    /\ UNCHANGED <<webVars, rotation, health>>

\* close_redis up to the await of line 142.
close_redis ==
    /\ ~redis.closing
    /\ redis.epoch < MaxCloses
    /\ redis.client # 0
    /\ redis' = [redis EXCEPT !.closing = TRUE]
    /\ UNCHANGED <<webVars, rotation, health>>

\* `await _redis_client.close()` returns: line 143.
close_returns ==
    /\ redis.closing
    /\ redis' = [redis EXCEPT !.closing = FALSE, !.client = 0,
                             !.made = 0, !.epoch = @ + 1]
    /\ UNCHANGED <<webVars, rotation, health>>

InitRedis ==
    /\ request_counts = <<>>
    /\ clock = 0
    /\ rl = [r \in Tasks |-> NewTask]
    /\ arrived = 0
    /\ sent = NoResponse
    /\ tally = <<>>
    /\ aged = {}
    /\ api_keys_str = <<>>
    /\ auth = NoAuth
    /\ unit = NoUnit
    /\ requests_per_minute = MaxRequests
    /\ decided = <<>>
    /\ ident = NoIdent
    /\ rotation = NoRotation
    /\ health = NoHealth
    /\ \E available \in BOOLEAN :
          redis = [NoRedis EXCEPT !.available = available]

NextRedis ==
    \/ \E g \in Getters : get_redis_client(g)
    \/ \E g \in Getters : from_url(g)
    \/ close_redis
    \/ close_returns

\* Tasks that get the Redis client while it is created and closed.
SpecRedis == InitRedis /\ [][NextRedis]_vars

\* C30: get_redis_client is get-or-create under concurrency.  Between two
\* close_redis calls at most one client is created and every caller, the
\* callers that overlap with the creation included, receives that one
\* instance; when close_redis returns the stored client is None, and the
\* next call creates a new client.
C30_GetOrCreate ==
    [][/\ redis'.made <= 1
       /\ \A g, h \in Getters :
             (/\ redis'.get[g].pc = "returned"
              /\ redis'.get[h].pc = "returned"
              /\ redis'.get[g].epoch = redis'.get[h].epoch)
               => redis'.get[g].client = redis'.get[h].client
       /\ (redis.closing /\ ~redis'.closing) => redis'.client = 0
       /\ \A g \in Getters :
             (/\ redis.available /\ redis.client = 0
              /\ redis.get[g].pc # "from_url"
              /\ redis'.get[g].pc # redis.get[g].pc)
               => redis'.get[g].pc = "from_url"]_vars

\* ------------------------------------------------------------------------
\* Key rotation
\* ------------------------------------------------------------------------

\* The state a rotation does not touch.
rotateFrame == <<request_counts, clock, rl, arrived, sent, tally, aged,
                 limiterVars, auth, unit, health, redis>>

\* ",".join(keys)
RECURSIVE Join(_)
Join(keys) ==
    IF keys = <<>> THEN <<>>
    ELSE IF Len(keys) = 1 THEN keys[1]
    ELSE keys[1] \o <<",">> \o Join(Tail(keys))

\* The values of API_KEYS deployed before the rotation.
DeployedConfigs == {<<"o">>, <<"o", ",", " ", "p">>}

\* The values of --prefix: argparse takes any string.
Prefixes == {<<"a", "p", "i">>, <<"a", ",", "b">>}

\* The random parts secrets.choice can produce, over two of the letters.
RandomParts == [1..KeyLength -> {"X", "Y"}]

\* generate_api_key(prefix, length): f"{prefix}_{random_part}"
generate_api_key(prefix, random_part) == prefix \o <<"_">> \o random_part

\* main() of rotate_api_keys.py, run with API_KEYS set to the deployed
\* value: the current keys (lines 58-59), the new keys (79) and the two
\* API_KEYS values it prints (93, 102).
main ==
    /\ rotation.pc = "start"
    /\ \E prefix \in Prefixes, count \in 0..MaxCount :
         \E random \in [1..count -> RandomParts] :
            LET current_keys == StripNonEmpty(Split(api_keys_str))
                new_keys == [i \in 1..count |->
                                generate_api_key(prefix, random[i])]
                all_keys == current_keys \o new_keys
            IN  rotation' = [rotation EXCEPT !.pc = "printed",
                                             !.current_keys = current_keys,
                                             !.new_keys = new_keys,
                                             !.add = Join(all_keys),
                                             !.remove = Join(new_keys)]
    /\ UNCHANGED <<rotateFrame, api_keys_str>>

\* Steps 1 and 2: API_KEYS is set to the first printed value and the
\* application is deployed.
DeployAdded ==
    /\ rotation.pc = "printed"
    /\ api_keys_str' = rotation.add
    /\ rotation' = [rotation EXCEPT !.pc = "added"]
    /\ UNCHANGED rotateFrame

\* Step 3: a client is updated to one of the new keys.
ClientSwitches(c) ==
    /\ rotation.pc = "added"
    /\ \E i \in 1..Len(rotation.new_keys) :
          /\ rotation.uses[c] # rotation.new_keys[i]
          /\ rotation' = [rotation EXCEPT !.uses[c] = rotation.new_keys[i]]
    /\ UNCHANGED <<rotateFrame, api_keys_str>>

\* Steps 4 to 6: every client was seen to use a new key; API_KEYS is set to
\* the second printed value and the application is deployed again.
DeployRemoved ==
    /\ rotation.pc = "added"
    /\ \A c \in Clients : InList(rotation.uses[c], rotation.new_keys)
    /\ api_keys_str' = rotation.remove
    /\ rotation' = [rotation EXCEPT !.pc = "removed"]
    /\ UNCHANGED rotateFrame

\* A client sends a request with its key: verify_api_key against the
\* deployed settings.api_keys.
ClientRequest(c) ==
    /\ rotation' =
          [rotation EXCEPT !.last =
              [client |-> c,
               outcome |-> verify_api_key(Some(rotation.uses[c]),
                                          api_keys(api_keys_str))]]
    /\ UNCHANGED <<rotateFrame, api_keys_str>>

InitRotate ==
    /\ request_counts = <<>>
    /\ clock = 0
    /\ rl = [r \in Tasks |-> NewTask]
    /\ arrived = 0
    /\ sent = NoResponse
    /\ tally = <<>>
    /\ aged = {}
    /\ api_keys_str \in DeployedConfigs
    /\ auth = NoAuth
    /\ unit = NoUnit
    /\ requests_per_minute = MaxRequests
    /\ decided = <<>>
    /\ ident = NoIdent
    /\ \E uses \in [Clients -> {api_keys(api_keys_str)[i] :
                                   i \in 1..Len(api_keys(api_keys_str))}] :
          rotation = [NoRotation EXCEPT !.uses = uses]
    /\ health = NoHealth
    /\ redis = NoRedis

NextRotate ==
    \/ main
    \/ DeployAdded
    \/ \E c \in Clients : ClientSwitches(c)
    \/ DeployRemoved
    \/ \E c \in Clients : ClientRequest(c)

\* A rotation of the API keys by the steps the script prints, with clients
\* that send requests all the time.
SpecRotate == InitRotate /\ [][NextRotate]_vars

\* C22: key rotation causes no service interruption.  When the steps are
\* followed in order (the new keys added alongside the existing ones,
\* deploy, clients switch at any time after that, the old keys removed only
\* after all clients switched, deploy again), the key every client uses is
\* in the deployed API_KEYS set at every moment and verify_api_key rejects
\* no request of a client.
C22_NoInterruption ==
    /\ \A c \in Clients : InList(rotation.uses[c], api_keys(api_keys_str))
    /\ rotation.last.client # 0 => rotation.last.outcome.kind = "return"

====
